---------------------------- MODULE Spec2Model ----------------------------
(***************************************************************************)
(* A model of the mkcoin trading bot: the RiskManager (risk gate), the     *)
(* GMOClient error counter, and the TradingBot orchestration of one run.   *)
(*                                                                         *)
(* Units.  The program computes with floats; the model computes with       *)
(* integers in fixed units:                                                *)
(*   prices and the yen limits (stop_loss, take_profit) in 10,000 JPY,     *)
(*   sizes (position size, amount, max_position_size) in 0.001 BTC.        *)
(* A product price * size * price is therefore worth                       *)
(* 10^4 * 10^-3 * 10^4 = 10^5 JPY = YenScale units of 10,000 JPY.          *)
(***************************************************************************)
EXTENDS Integers, Sequences, FiniteSets, TLC

VARIABLES
    \* RiskLimits and trading configuration (immutable after construction)
    stop_loss, take_profit, max_position_size, max_reversal_count,
    max_consecutive_errors, amount, order_type,
    \* RiskManager state
    reversal_count, last_order_side, trade_history,
    \* GMOClient state
    consecutive_errors,
    \* MovingAverageStrategy configuration and state
    short_period, long_period, last_signal,
    \* TradingBot.run_once: control position and locals
    pc, positions, current_price, signal, exit_status,
    \* the exchange (orders received) and the trade-history CSV file
    orders, csv,
    \* observation: the calls made so far and the last call's return value
    calls, ret

vars == <<stop_loss, take_profit, max_position_size, max_reversal_count,
          max_consecutive_errors, amount, order_type,
          reversal_count, last_order_side, trade_history,
          consecutive_errors, short_period, long_period, last_signal,
          pc, positions, current_price, signal, exit_status,
          orders, csv, calls, ret>>

limits == <<stop_loss, take_profit, max_position_size, max_reversal_count,
            max_consecutive_errors, amount, order_type>>

strategy == <<short_period, long_period, last_signal>>

botvars == <<pc, positions, current_price, signal, exit_status, orders, csv>>

---------------------------------------------------------------------------
(* Values *)

None == "None"

\* Python's None where the other values are numbers (a price, an order id,
\* an exit status)
NoNumber == -1

Sides == {"BUY", "SELL"}

\* 10,000 JPY per price unit, squared, times 0.001 BTC per size unit,
\* expressed in units of 10,000 JPY
YenScale == 10

\* Prices (10,000 JPY): small ones, and those around 5,000,000 JPY
Prices == {1, 2, 3, 480, 490, 495, 500, 505, 510, 520}

\* Entry prices of positions (10,000 JPY)
EntryPrices == {2, 500}

\* Sizes (0.001 BTC): the default amount 0.001 and the 0.01 of the tests
Sizes == {1, 10}

\* Yen limits (10,000 JPY) a configuration may give; the defaults are 1 and 2
LimitChoices == {-10, -1, 0, 1, 2, 10, 20}

\* Prices the ticker may give during a run (10,000 JPY)
BotPrices == {2, 3}

\* Closing prices of candles (10,000 JPY)
Closes == {1, 2, 3}

\* Outcomes of one private API request: success, a network/HTTP failure,
\* or a response whose status is not 0
RequestOutcomes == {"ok", "transport", "api"}

\* Sizes (0.001 BTC) a caller may ask check_position_size about
RequestedSizes == {0, 1, 5, 9, 10, 11, 20}

\* Model bounds
MaxPositions == 2

MaxCalls == 8

MaxLimit == 5

MaxRequests == 4

MaxTrades == 2

MaxKlines == 3

---------------------------------------------------------------------------
(* RiskManager *)

\* RiskManager.__init__: the state fields
RiskInit ==
    /\ reversal_count = 0
    /\ last_order_side = None
    /\ trade_history = <<>>

\* check_reversal_count, lines 139-144, with the reset branch dropped
new_reversal_count_noreset(side) ==
    IF last_order_side # None /\ last_order_side # side
    THEN reversal_count + 1
    ELSE reversal_count

\* check_reversal_count counting a reversal against an unset last side
new_reversal_count_unset(side) ==
    IF last_order_side # side THEN reversal_count + 1 ELSE 0

\* check_reversal_count with a veto that a same-side call does not lift
new_reversal_count_sticky(side) ==
    IF last_order_side # None /\ last_order_side # side
    THEN reversal_count + 1
    ELSE IF reversal_count >= max_reversal_count THEN reversal_count ELSE 0

\* check_reversal_count, lines 139-144: the counter after the call
new_reversal_count(side) ==
    IF last_order_side # None /\ last_order_side # side
    THEN reversal_count + 1
    ELSE 0

\* check_reversal_count, lines 148-155: the value returned
reversal_count_ok(side) ==
    ~(new_reversal_count(side) >= max_reversal_count)

\* check_reversal_count: the state change
check_reversal_count(side) ==
    /\ reversal_count' = new_reversal_count(side)
    /\ last_order_side' = side

\* a reset that also forgets the last side
reset_reversal_count_all ==
    /\ reversal_count' = 0
    /\ last_order_side' = None

\* reset_reversal_count
reset_reversal_count ==
    /\ reversal_count' = 0
    /\ UNCHANGED last_order_side

\* check_stop_loss, lines 64-69: the directional loss in price units
loss_swapped(cur, entry, side, size) ==
    IF side = "BUY" THEN (cur - entry) * size ELSE (entry - cur) * size

loss(cur, entry, side, size) ==
    IF side = "BUY" THEN (entry - cur) * size ELSE (cur - entry) * size

\* check_stop_loss, lines 71-72: the loss "in yen", the same for both sides
loss_jpy(cur, entry, side, size) ==
    loss(cur, entry, side, size) * cur * YenScale

check_stop_loss_strict(cur, entry, side, size) ==
    loss_jpy(cur, entry, side, size) > stop_loss

\* check_stop_loss, lines 74-78: the value returned
check_stop_loss(cur, entry, side, size) ==
    loss_jpy(cur, entry, side, size) >= stop_loss

\* check_take_profit measuring the loss in place of the profit
profit_as_loss(cur, entry, side, size) ==
    IF side = "BUY" THEN (entry - cur) * size ELSE (cur - entry) * size

\* check_take_profit, lines 93-98: the directional profit in price units
profit(cur, entry, side, size) ==
    IF side = "BUY" THEN (cur - entry) * size ELSE (entry - cur) * size

\* check_take_profit, lines 100-101: the profit "in yen"
profit_jpy(cur, entry, side, size) ==
    profit(cur, entry, side, size) * cur * YenScale

check_take_profit_strict(cur, entry, side, size) ==
    profit_jpy(cur, entry, side, size) > take_profit

\* check_take_profit, lines 103-107: the value returned
check_take_profit(cur, entry, side, size) ==
    profit_jpy(cur, entry, side, size) >= take_profit

\* check_position_size with a size equal to the limit rejected
check_position_size_strict(size) ==
    ~(size >= max_position_size)

\* check_position_size: the value returned
check_position_size(size) ==
    ~(size > max_position_size)

\* check_consecutive_errors with a count equal to the limit accepted
check_consecutive_errors_strict ==
    ~(consecutive_errors > max_consecutive_errors)

\* check_consecutive_errors: the value returned, from the client's live counter
check_consecutive_errors ==
    ~(consecutive_errors >= max_consecutive_errors)

\* record_trade with the size and the price exchanged
record_trade_swapped(side, size, price, order_id) ==
    Append(trade_history,
           [side |-> side, size |-> price, price |-> size, order_id |-> order_id])

\* record_trade: the history after the call (the timestamp is left out)
record_trade(side, size, price, order_id) ==
    Append(trade_history,
           [side |-> side, size |-> size, price |-> price, order_id |-> order_id])

---------------------------------------------------------------------------
(* GMOClient *)

\* _make_private_request, lines 98-130: the counter after a request.  A
\* response with status # 0 first resets the counter (line 114), then raises
\* and is counted by the handler of line 127.
private_request(outcome) ==
    CASE outcome = "ok" -> 0
      [] outcome = "transport" -> consecutive_errors + 1
      [] outcome = "api" -> 1

\* _make_public_request, lines 149-164: the counter after a request.  No
\* branch reads or writes it, whatever the outcome.
public_request(outcome) == consecutive_errors

---------------------------------------------------------------------------
(* MovingAverageStrategy *)

RECURSIVE Sum(_)
Sum(seq) == IF seq = <<>> THEN 0 ELSE Head(seq) + Sum(Tail(seq))

\* Python's seq[start:stop] for start < 0 and stop <= 0 (stop = 0: to the end)
PySlice(seq, start, stop) ==
    LET n == Len(seq)
        lo == IF n + start < 0 THEN 0 ELSE n + start
        hi == IF stop = 0 THEN n ELSE IF n + stop < 0 THEN 0 ELSE n + stop
    IN IF start = 0 THEN SubSeq(seq, 1, hi) ELSE SubSeq(seq, lo + 1, hi)

\* a mean as the pair <<sum, count>>; count 0 is numpy's nan
Mean(seq) == <<Sum(seq), Len(seq)>>

\* a < b for means; false when either is nan
MeanLess(a, b) ==
    /\ a[2] > 0 /\ b[2] > 0
    /\ a[1] * b[2] < b[1] * a[2]

MeanLeq(a, b) ==
    /\ a[2] > 0 /\ b[2] > 0
    /\ a[1] * b[2] <= b[1] * a[2]

\* calculate_moving_averages with the averages taken from whatever is there
calculate_moving_averages_shorter(closes) ==
    IF closes = <<>>
    THEN None
    ELSE <<Mean(PySlice(closes, -short_period, 0)),
           Mean(PySlice(closes, -long_period, 0))>>

\* calculate_moving_averages: <<short_ma, long_ma>>, or None for (None, None)
calculate_moving_averages(closes) ==
    IF closes = <<>> \/ Len(closes) < long_period
    THEN None
    ELSE <<Mean(PySlice(closes, -short_period, 0)),
           Mean(PySlice(closes, -long_period, 0))>>

\* the previous pair taken to be the current pair whatever the length
previous_moving_averages_current(closes) == calculate_moving_averages(closes)

\* the previous pair taken from the shifted windows whatever the length
previous_moving_averages_always(closes) ==
    <<Mean(PySlice(closes, -(short_period + 1), -1)),
      Mean(PySlice(closes, -(long_period + 1), -1))>>

\* get_signal, lines 143-149: the previous pair
previous_moving_averages(closes) ==
    IF Len(closes) >= long_period + 1
    THEN <<Mean(PySlice(closes, -(short_period + 1), -1)),
           Mean(PySlice(closes, -(long_period + 1), -1))>>
    ELSE calculate_moving_averages(closes)

\* get_signal with the previous averages compared strictly
get_signal_strict(closes) ==
    IF closes = <<>> THEN None
    ELSE IF calculate_moving_averages(closes) = None THEN None
    ELSE LET cur == calculate_moving_averages(closes)
             prev == previous_moving_averages(closes)
         IN IF MeanLess(prev[1], prev[2]) /\ MeanLess(cur[2], cur[1]) THEN "BUY"
            ELSE IF MeanLess(prev[2], prev[1]) /\ MeanLess(cur[1], cur[2]) THEN "SELL"
            ELSE None

\* get_signal, lines 133-169: the value returned for the series of closes
\* that _get_klines_data produced
get_signal(closes) ==
    IF closes = <<>> THEN None
    ELSE IF calculate_moving_averages(closes) = None THEN None
    ELSE LET cur == calculate_moving_averages(closes)
             prev == previous_moving_averages(closes)
         IN IF MeanLeq(prev[1], prev[2]) /\ MeanLess(cur[2], cur[1]) THEN "BUY"
            ELSE IF MeanLeq(prev[2], prev[1]) /\ MeanLess(cur[1], cur[2]) THEN "SELL"
            ELSE None

---------------------------------------------------------------------------
(* TradingBot: one process, main() -> run_once() *)

\* a row whose status is ORDERED whatever happened
TradeData_always_ordered(side, size, price, order_id, source, status, error_message) ==
    [side |-> side, size |-> size, price |-> price, order_id |-> order_id,
     signal |-> source, status |-> "ORDERED", error_message |-> error_message]

\* the row save_trade_history appends (the timestamp is left out)
TradeData(side, size, price, order_id, source, status, error_message) ==
    [side |-> side, size |-> size, price |-> price, order_id |-> order_id,
     signal |-> source, status |-> status, error_message |-> error_message]

\* the request place_order sends, with what it is for and how it ended;
\* the exchange numbers its orders
Order(side, execution_type, size, price, purpose, outcome) ==
    [side |-> side, execution_type |-> execution_type, size |-> size,
     price |-> price, purpose |-> purpose, outcome |-> outcome]

\* response.get("data") of a successful place_order
NextOrderId == Len(orders) + 1

\* str(e) of the exception a failed step raised
ErrorMessage(o_out) == IF o_out = "ok" THEN "io" ELSE o_out

Call(op) == <<op, None>>

\* the position lists the exchange may return: entry price 20,000 JPY,
\* positionId the index as a string, size the index in 0.001 BTC
PositionLists ==
    UNION { { [i \in 1..n |-> [positionId |-> ToString(i), side |-> f[i], size |-> i, price |-> 2]] :
                f \in [1..n -> Sides] } : n \in 0..MaxPositions }

\* pandas' NaN, the result of a coercion that failed
NaN == NoNumber

\* the strings of a candle field in the exchange's response that read as a
\* number; "abc" stands for those that do not
NumericStrings == {"1", "2", "3"}

\* pd.to_numeric(value, errors='coerce')
to_numeric(v) ==
    CASE v = "1" -> 1
      [] v = "2" -> 2
      [] v = "3" -> 3
      [] OTHER -> NaN

\* _get_klines_data, lines 75-80: the six columns converted
to_numeric_columns(df) ==
    [i \in 1..Len(df) |->
        [openTime |-> to_numeric(df[i].openTime),
         open |-> to_numeric(df[i].open), high |-> to_numeric(df[i].high),
         low |-> to_numeric(df[i].low), close |-> to_numeric(df[i].close),
         volume |-> to_numeric(df[i].volume)]]

\* df.dropna() without a subset: a NaN in any column drops the row
dropna_any(df) ==
    SelectSeq(df, LAMBDA r : /\ r.open # NaN /\ r.high # NaN /\ r.low # NaN
                             /\ r.close # NaN /\ r.openTime # NaN
                             /\ r.volume # NaN)

\* df.dropna(subset=['open', 'high', 'low', 'close', 'openTime'])
dropna(df) ==
    SelectSeq(df, LAMBDA r : /\ r.open # NaN /\ r.high # NaN /\ r.low # NaN
                             /\ r.close # NaN /\ r.openTime # NaN)

\* df.sort_values('openTime'): the default algorithm is not stable, so rows
\* of equal openTime may come out in any order
sort_values(df) ==
    { [i \in 1..Len(df) |-> df[p[i]]] :
        p \in { q \in Permutations(1..Len(df)) :
                    \A i, j \in 1..Len(df) :
                        i < j => df[q[i]].openTime <= df[q[j]].openTime } }

\* df.head(count)
head(df, count) ==
    IF Len(df) > count THEN SubSeq(df, 1, count) ELSE df

\* lines 89-90: df.tail(count) when len(df) > count
tail(df, count) ==
    IF Len(df) > count THEN SubSeq(df, Len(df) - count + 1, Len(df)) ELSE df

\* line 61: today's response carried no candles, yesterday's is asked for
fetches_yesterday(today) == today.outcome = "ok" /\ today.data = <<>>

\* _get_klines_data(count) given the responses to the one or two get_klines
\* requests: the frames it may return; an exception gives the empty frame
get_klines_data(count, today, yesterday) ==
    IF today.outcome # "ok" THEN {<<>>}
    ELSE IF fetches_yesterday(today) /\ yesterday.outcome # "ok" THEN {<<>>}
    ELSE LET klines == IF fetches_yesterday(today)
                       THEN yesterday.data ELSE today.data
         IN  IF klines = <<>> THEN {<<>>}
             ELSE { tail(df, count) :
                      df \in sort_values(dropna(to_numeric_columns(klines))) }

\* the series of closes _get_klines_data may produce
CloseSeries ==
    UNION { [1..n -> Closes] : n \in 0..(long_period + 1) }

Init ==
    /\ RiskInit
    /\ stop_loss = 1 /\ take_profit = 2
    /\ max_position_size = 10
    /\ max_reversal_count \in {0, 5}
    /\ max_consecutive_errors \in {1, 2, 3}
    /\ amount \in {1, 20}
    /\ order_type \in {"MARKET", "LIMIT"}
    /\ consecutive_errors = 0
    /\ short_period = 1 /\ long_period = 2 /\ last_signal = None
    /\ pc = "start" /\ positions = <<>> /\ current_price = NoNumber
    /\ signal = None /\ exit_status = NoNumber
    /\ orders = <<>> /\ csv = <<>>
    /\ calls = <<>>
    /\ ret = [op |-> "__init__", args |-> <<>>, result |-> TRUE]

\* run_once with the run carried on whatever the exchange status is
GetStatus_ignores ==
    /\ pc = "start"
    /\ \E status \in {"OPEN", "MAINTENANCE", "raise"} :
        /\ pc' = IF status = "raise" THEN "exited" ELSE "check_positions"
        /\ exit_status' = IF status = "raise" THEN 1 ELSE NoNumber
        /\ ret' = [op |-> "get_status", args |-> <<>>, result |-> status]
    /\ calls' = Append(calls, Call("get_status"))
    /\ UNCHANGED <<limits, reversal_count, last_order_side, trade_history,
                   consecutive_errors, strategy, positions, current_price,
                   signal, orders, csv>>

\* run_once, lines 295-304, and main's handlers: the exchange status, kept
\* in ret ("raise" when the request raised)
GetStatus ==
    /\ pc = "start"
    /\ \E status \in {"OPEN", "MAINTENANCE", "raise"} :
        /\ pc' = CASE status = "OPEN" -> "check_positions"
                   [] status = "MAINTENANCE" -> "done"
                   [] status = "raise" -> "exited"
        /\ exit_status' = CASE status = "OPEN" -> NoNumber
                            [] status = "MAINTENANCE" -> 0
                            [] status = "raise" -> 1
        /\ ret' = [op |-> "get_status", args |-> <<>>, result |-> status]
    /\ calls' = Append(calls, Call("get_status"))
    /\ UNCHANGED <<limits, reversal_count, last_order_side, trade_history,
                   consecutive_errors, strategy, positions, current_price,
                   signal, orders, csv>>

\* get_current_positions without its handler: a failed listing ends the run
GetCurrentPositions_propagates ==
    /\ pc = "check_positions"
    /\ \E outcome \in RequestOutcomes, list \in PositionLists :
        /\ consecutive_errors' = private_request(outcome)
        /\ positions' = IF outcome = "ok" THEN list ELSE <<>>
        /\ pc' = IF outcome # "ok" THEN "exited"
                 ELSE IF positions' = <<>> THEN "price" ELSE "positions_price"
        /\ exit_status' = IF outcome # "ok" THEN 1 ELSE exit_status
    /\ calls' = Append(calls, Call("get_open_positions"))
    /\ UNCHANGED <<limits, reversal_count, last_order_side, trade_history,
                   strategy, current_price, signal, orders, csv, ret>>

\* check_existing_positions, lines 175-178, with get_current_positions
GetCurrentPositions ==
    /\ pc = "check_positions"
    /\ \E outcome \in RequestOutcomes, list \in PositionLists :
        /\ consecutive_errors' = private_request(outcome)
        /\ positions' = IF outcome = "ok" THEN list ELSE <<>>
        /\ pc' = IF positions' = <<>> THEN "price" ELSE "positions_price"
    /\ calls' = Append(calls, Call("get_open_positions"))
    /\ UNCHANGED <<limits, reversal_count, last_order_side, trade_history,
                   strategy, current_price, signal, exit_status, orders, csv, ret>>

\* check_existing_positions, lines 180-183: the price shared by the loop
GetPositionsPrice ==
    /\ pc = "positions_price"
    /\ \E p_out \in BotPrices \cup {NoNumber} :
        /\ current_price' = p_out
        /\ pc' = IF p_out = NoNumber THEN "price" ELSE "positions_loop"
    /\ calls' = Append(calls, Call("get_ticker"))
    /\ UNCHANGED <<limits, reversal_count, last_order_side, trade_history,
                   consecutive_errors, strategy, positions, signal,
                   exit_status, orders, csv, ret>>

\* the answers of the environment to one order attempt, each answer that is
\* never asked for fixed: no order request without a price, no first append
\* unless the order succeeded, no second append after a successful first
Consulted(p_out, o_out, s1, s2) ==
    /\ p_out = NoNumber => o_out = "ok"
    /\ (p_out = NoNumber \/ o_out # "ok") => s1
    /\ (o_out = "ok" /\ s1) => s2

\* close_position, line 118, with the side kept
close_side_same(side) == side

\* close_position, line 118: the side of the closing order
close_side(side) == IF side = "BUY" THEN "SELL" ELSE "BUY"

\* check_existing_positions, lines 191-199, with both checks always evaluated
position_checks_both(position) ==
    <<<<"check_stop_loss", position.positionId>>,
      <<"check_take_profit", position.positionId>>>>

\* check_existing_positions, lines 191-199: the checks evaluated for one
\* position, take-profit only when stop-loss returned false
position_checks(position) ==
    <<<<"check_stop_loss", position.positionId>>>>
      \o (IF check_stop_loss(current_price, position.price,
                             position.side, position.size)
          THEN <<>>
          ELSE <<<<"check_take_profit", position.positionId>>>>)

\* close_position with an order reported as closed whatever its outcome
close_stage_always_closed(p_out, o_out, s1, s2) ==
    IF p_out = NoNumber THEN "no_price"
    ELSE IF s1 THEN "closed"
    ELSE IF s2 THEN "error_logged"
    ELSE "raised"

\* close_position: how far it gets, given the ticker's answer, the order
\* request's outcome and whether the two log appends succeed
close_stage(p_out, o_out, s1, s2) ==
    IF p_out = NoNumber THEN "no_price"
    ELSE IF o_out = "ok" /\ s1 THEN "closed"
    ELSE IF s2 THEN "error_logged"
    ELSE "raised"

\* close_position, lines 116-170
close_position(position, p_out, o_out, s1, s2) ==
    LET side == close_side(position.side)
        stage == close_stage(p_out, o_out, s1, s2)
        order_id == NextOrderId
    IN /\ orders' = IF stage = "no_price" THEN orders
                    ELSE Append(orders, Order(side, "MARKET", position.size,
                                              NoNumber, "AUTO_CLOSE", o_out))
       /\ consecutive_errors' = IF stage = "no_price" THEN consecutive_errors
                                ELSE private_request(o_out)
       /\ csv' = CASE stage = "closed" ->
                        Append(csv, TradeData(side, position.size, p_out, order_id,
                                              "AUTO_CLOSE", "CLOSED", ""))
                   [] stage = "error_logged" ->
                        Append(csv, TradeData(position.side, position.size, 0, NoNumber,
                                              "AUTO_CLOSE", "ERROR_CLOSE",
                                              ErrorMessage(o_out)))
                   [] OTHER -> csv
       /\ trade_history' = IF stage = "closed"
                           THEN record_trade(side, position.size, p_out, order_id)
                           ELSE trade_history
       /\ calls' = calls \o position_checks(position)
                     \o <<<<"close_position", position.positionId>>, Call("get_ticker")>>
                     \o (IF stage = "no_price" THEN <<>> ELSE <<Call("place_order")>>)
                     \o (IF stage \in {"closed", "error_logged"}
                         THEN <<Call("save_trade_history")>> ELSE <<>>)
       \* an exception out of close_position ends the loop (line 205)
       /\ positions' = IF stage = "raised" THEN <<>> ELSE Tail(positions)

\* check_existing_positions, lines 185-203: one iteration of the loop
CheckPosition ==
    /\ pc = "positions_loop"
    /\ positions # <<>>
    /\ LET position == Head(positions)
           stop == check_stop_loss(current_price, position.price,
                                   position.side, position.size)
           take == check_take_profit(current_price, position.price,
                                     position.side, position.size)
       IN IF stop \/ take
          THEN \E p_out \in BotPrices \cup {NoNumber}, o_out \in RequestOutcomes,
                  s1 \in BOOLEAN, s2 \in BOOLEAN :
                  /\ Consulted(p_out, o_out, s1, s2)
                  /\ close_position(position, p_out, o_out, s1, s2)
          ELSE /\ positions' = Tail(positions)
               /\ calls' = calls \o position_checks(position)
               /\ UNCHANGED <<orders, consecutive_errors, csv, trade_history>>
    /\ pc' = IF positions' = <<>> THEN "price" ELSE "positions_loop"
    /\ UNCHANGED <<limits, reversal_count, last_order_side, strategy,
                   current_price, signal, exit_status, ret>>

\* the price fetch with a failed ticker request counted as an error
GetCurrentPrice_counts ==
    /\ pc = "price"
    /\ pc' = "signal"
    /\ \E outcome \in RequestOutcomes :
        consecutive_errors' = IF outcome = "ok" THEN consecutive_errors
                              ELSE consecutive_errors + 1
    /\ calls' = Append(calls, Call("get_ticker"))
    /\ UNCHANGED <<limits, reversal_count, last_order_side, trade_history,
                   strategy, positions, current_price,
                   signal, exit_status, orders, csv, ret>>

\* run_once, lines 309-312: the price is fetched again and only logged
GetCurrentPrice ==
    /\ pc = "price"
    /\ pc' = "signal"
    /\ calls' = Append(calls, Call("get_ticker"))
    /\ UNCHANGED <<limits, reversal_count, last_order_side, trade_history,
                   consecutive_errors, strategy, positions, current_price,
                   signal, exit_status, orders, csv, ret>>

\* run_once, lines 314-321, with execute_trade called whatever the signal
GetSignal_always_trades ==
    /\ pc = "signal"
    /\ \E sig \in {get_signal(closes) : closes \in CloseSeries} :
        /\ signal' = sig
        /\ last_signal' = IF sig # None THEN sig ELSE last_signal
        /\ pc' = "execute_trade"
    /\ calls' = Append(calls, Call("get_signal"))
    /\ UNCHANGED <<limits, reversal_count, last_order_side, trade_history,
                   consecutive_errors, short_period, long_period, positions,
                   current_price, exit_status, orders, csv, ret>>

\* run_once, lines 314-321, with MovingAverageStrategy.get_signal
GetSignal ==
    /\ pc = "signal"
    /\ \E sig \in {get_signal(closes) : closes \in CloseSeries} :
        /\ signal' = sig
        /\ last_signal' = IF sig # None THEN sig ELSE last_signal
        /\ pc' = IF sig # None THEN "execute_trade" ELSE "assets"
    /\ calls' = Append(calls, Call("get_signal"))
    /\ UNCHANGED <<limits, reversal_count, last_order_side, trade_history,
                   consecutive_errors, short_period, long_period, positions,
                   current_price, exit_status, orders, csv, ret>>

\* execute_trade, lines 216-234, with the reversal gate ahead of the error gate
execute_stage_reversal_first(sig, p_out, o_out, s1, s2) ==
    IF ~reversal_count_ok(sig) THEN "reversal_veto"
    ELSE IF ~check_consecutive_errors THEN "fatal"
    ELSE IF ~check_position_size(amount) THEN "size_veto"
    ELSE IF p_out = NoNumber THEN "no_price"
    ELSE IF o_out = "ok" /\ s1 THEN "ordered"
    ELSE IF s2 THEN "error_logged"
    ELSE "raised"

\* execute_trade, lines 216-234, with the position-size gate left out
execute_stage_no_size_gate(sig, p_out, o_out, s1, s2) ==
    IF ~check_consecutive_errors THEN "fatal"
    ELSE IF ~reversal_count_ok(sig) THEN "reversal_veto"
    ELSE IF p_out = NoNumber THEN "no_price"
    ELSE IF o_out = "ok" /\ s1 THEN "ordered"
    ELSE IF s2 THEN "error_logged"
    ELSE "raised"

\* execute_trade: how far it gets, given the state, the ticker's answer, the
\* order request's outcome and whether the two log appends succeed
execute_stage(sig, p_out, o_out, s1, s2) ==
    IF ~check_consecutive_errors THEN "fatal"
    ELSE IF ~reversal_count_ok(sig) THEN "reversal_veto"
    ELSE IF ~check_position_size(amount) THEN "size_veto"
    ELSE IF p_out = NoNumber THEN "no_price"
    ELSE IF o_out = "ok" /\ s1 THEN "ordered"
    ELSE IF s2 THEN "error_logged"
    ELSE "raised"

\* execute_trade, lines 208-287, and what run_once and main do with its end
execute_trade(sig, p_out, o_out, s1, s2) ==
    LET stage == execute_stage(sig, p_out, o_out, s1, s2)
        placed == stage \in {"ordered", "error_logged", "raised"}
        price == IF order_type = "MARKET" THEN NoNumber ELSE p_out
        order_id == NextOrderId
    IN /\ IF stage = "fatal"
          THEN UNCHANGED <<reversal_count, last_order_side>>
          ELSE check_reversal_count(sig)
       /\ orders' = IF placed
                    THEN Append(orders, Order(sig, order_type, amount, price,
                                              "MOVING_AVERAGE_CROSS", o_out))
                    ELSE orders
       /\ consecutive_errors' = IF placed THEN private_request(o_out)
                                ELSE consecutive_errors
       /\ csv' = CASE stage = "ordered" ->
                        Append(csv, TradeData(sig, amount, p_out, order_id,
                                              "MOVING_AVERAGE_CROSS", "ORDERED", ""))
                   [] stage = "error_logged" ->
                        Append(csv, TradeData(sig, amount, 0, NoNumber,
                                              "MOVING_AVERAGE_CROSS", "ERROR",
                                              ErrorMessage(o_out)))
                   [] OTHER -> csv
       /\ trade_history' = IF stage = "ordered"
                           THEN record_trade(sig, amount, p_out, order_id)
                           ELSE trade_history
       /\ calls' = calls \o <<Call("check_consecutive_errors")>>
                     \o (IF stage = "fatal" THEN <<>>
                         ELSE <<<<"check_reversal_count", sig>>>>)
                     \o (IF stage \in {"fatal", "reversal_veto"} THEN <<>>
                         ELSE <<Call("check_position_size")>>)
                     \o (IF stage \in {"fatal", "reversal_veto", "size_veto"} THEN <<>>
                         ELSE <<Call("get_ticker")>>)
                     \o (IF placed THEN <<Call("place_order")>> ELSE <<>>)
                     \o (IF stage \in {"ordered", "error_logged"}
                         THEN <<Call("save_trade_history")>> ELSE <<>>)
       \* the local current_price of line 231
       /\ current_price' = IF stage \in {"fatal", "reversal_veto", "size_veto"}
                           THEN current_price ELSE p_out
       \* sys.exit(1) at line 218; an exception of the second append leaves
       \* run_once through line 344 and main exits with status 1 (line 358)
       /\ pc' = IF stage \in {"fatal", "raised"} THEN "exited" ELSE "assets"
       /\ exit_status' = IF stage \in {"fatal", "raised"} THEN 1 ELSE NoNumber

ExecuteTrade ==
    /\ pc = "execute_trade"
    /\ \E p_out \in BotPrices \cup {NoNumber}, o_out \in RequestOutcomes,
          s1 \in BOOLEAN, s2 \in BOOLEAN :
          /\ Consulted(p_out, o_out, s1, s2)
          /\ execute_trade(signal, p_out, o_out, s1, s2)
    /\ UNCHANGED <<limits, strategy, positions, signal, ret>>

\* run_once, lines 323-340: the balance is fetched and logged
GetAssets ==
    /\ pc = "assets"
    /\ \E outcome \in RequestOutcomes :
        consecutive_errors' = private_request(outcome)
    /\ pc' = "done"
    /\ exit_status' = 0
    /\ calls' = Append(calls, Call("get_assets"))
    /\ UNCHANGED <<limits, reversal_count, last_order_side, trade_history,
                   strategy, positions, current_price, signal, orders, csv, ret>>

Next ==
    \/ GetStatus
    \/ GetCurrentPositions
    \/ GetPositionsPrice
    \/ CheckPosition
    \/ GetCurrentPrice
    \/ GetSignal
    \/ ExecuteTrade
    \/ GetAssets

Spec == Init /\ [][Next]_vars

---------------------------------------------------------------------------
(* Claims about execute_trade *)

Called(op) == \E i \in 1..Len(calls) : calls[i][1] = op

\* the orders placed for the signal, and the rows written for it
SignalOrders == SelectSeq(orders, LAMBDA o : o.purpose = "MOVING_AVERAGE_CROSS")

SignalRows == SelectSeq(csv, LAMBDA r : r.signal = "MOVING_AVERAGE_CROSS")

\* execute_trade has been left
AfterExecuteTrade == signal # None /\ pc \in {"assets", "done", "exited"}

\* the counter check_reversal_count(signal) leaves, by its contract
ReversalCountFor(sig) ==
    IF last_order_side \in Sides /\ last_order_side # sig
    THEN reversal_count + 1 ELSE 0

C8_GateOrder ==
    /\ \A i \in 1..Len(calls) :
         /\ calls[i][1] = "check_reversal_count" =>
               i > 1 /\ calls[i - 1][1] = "check_consecutive_errors"
         /\ calls[i][1] = "check_position_size" =>
               i > 1 /\ calls[i - 1][1] = "check_reversal_count"
    /\ AfterExecuteTrade => Called("check_consecutive_errors")

C8_FatalStep ==
    /\ (pc = "execute_trade" /\ consecutive_errors >= max_consecutive_errors) =>
          /\ pc' = "exited"
          /\ exit_status' = 1
          /\ calls' = Append(calls, Call("check_consecutive_errors"))
          /\ UNCHANGED <<reversal_count, last_order_side, orders, csv, trade_history>>
    /\ pc # "exited"

\* C8: a non-NONE signal meets the gates in the order consecutive-errors,
\* reversal-count, position-size; when the consecutive-errors gate fails the
\* process ends with exit status 1 and takes no further step, without calling
\* check_reversal_count, placing an order or writing a trade record.
C8_GatesInOrderFatalFirst == []C8_GateOrder /\ [][C8_FatalStep]_vars

C8_Witness ==
    /\ pc = "exited"
    /\ exit_status = 1
    /\ signal \in Sides
    /\ consecutive_errors >= max_consecutive_errors
    /\ calls[Len(calls)] = Call("check_consecutive_errors")

\* the signal passed the three gates of execute_trade
PassedGates ==
    /\ AfterExecuteTrade
    /\ Called("check_position_size")
    /\ reversal_count < max_reversal_count
    /\ amount <= max_position_size

RowMatchesOrder(r, o, id) ==
    \/ /\ o.outcome = "ok"
       /\ r.status = "ORDERED" /\ r.order_id = id /\ r.error_message = ""
    \/ /\ o.outcome # "ok"
       /\ r.status = "ERROR" /\ r.error_message # ""

\* the number the exchange gave to the signal's order
SignalOrderId ==
    CHOOSE i \in 1..Len(orders) : orders[i].purpose = "MOVING_AVERAGE_CROSS"

\* C9 as stated: a signal that passes the three gates has exactly one order
\* placed for it, with the signal's side and the configured type and size, and
\* exactly one trade record: ORDERED with the order id when the placement
\* succeeded, ERROR with the error message when it failed.
C9_OneOrderOneRow ==
    PassedGates =>
        /\ Len(SignalOrders) = 1
        /\ SignalOrders[1].side = signal
        /\ SignalOrders[1].execution_type = order_type
        /\ SignalOrders[1].size = amount
        /\ Len(SignalRows) = 1
        /\ RowMatchesOrder(SignalRows[1], SignalOrders[1], SignalOrderId)

\* C9 amended: a signal that passes the three gates has no order and no trade
\* record when the price is unavailable; otherwise exactly one order is placed
\* for it (never retried), with the signal's side and the configured type and
\* size, and at most one trade record is written: ORDERED with the order id
\* only when the placement succeeded, ERROR with an error message when the
\* placement failed or the ORDERED append failed; no record is written only
\* when the ERROR append fails too, and the process then exits with status 1.
C9_OneOrderAtMostOneRow ==
    PassedGates =>
        IF current_price = NoNumber
        THEN SignalOrders = <<>> /\ SignalRows = <<>>
        ELSE /\ Len(SignalOrders) = 1
             /\ SignalOrders[1].side = signal
             /\ SignalOrders[1].execution_type = order_type
             /\ SignalOrders[1].size = amount
             /\ Len(SignalRows) <= 1
             /\ \A i \in 1..Len(SignalRows) :
                  /\ SignalRows[i].side = signal /\ SignalRows[i].size = amount
                  /\ \/ /\ SignalRows[i].status = "ORDERED"
                        /\ SignalOrders[1].outcome = "ok"
                        /\ SignalRows[i].order_id = SignalOrderId
                        /\ SignalRows[i].error_message = ""
                     \/ /\ SignalRows[i].status = "ERROR"
                        /\ SignalRows[i].error_message # ""
             /\ SignalRows = <<>> <=> (pc = "exited" /\ exit_status = 1)

C9_Witness ==
    /\ PassedGates
    /\ Len(SignalOrders) = 1
    /\ SignalOrders[1].outcome = "ok"
    /\ Len(SignalRows) = 1
    /\ SignalRows[1].status = "ORDERED"
    /\ pc = "done"

\* the reversal-count gate or the position-size gate vetoes the signal
GateVetoes ==
    /\ pc = "execute_trade"
    /\ consecutive_errors < max_consecutive_errors
    /\ \/ ReversalCountFor(signal) >= max_reversal_count
       \/ amount > max_position_size

C10_Step ==
    /\ GateVetoes =>
          /\ UNCHANGED <<orders, csv, trade_history>>
          /\ pc' = "assets"
          /\ exit_status' = NoNumber
    /\ pc = "assets" =>
          /\ UNCHANGED <<orders, csv, trade_history>>
          /\ pc' = "done"
          /\ exit_status' = 0

\* C10: when the reversal-count gate or the position-size gate vetoes a signal,
\* no order is placed and no trade record is written, nothing is raised, and
\* run_once goes on to its normal completion.
C10_VetoSuppressesOnlyTheOrder ==
    [](pc = "assets" => ENABLED <<Next>>_vars) /\ [][C10_Step]_vars

C10_Witness ==
    /\ pc = "done"
    /\ exit_status = 0
    /\ signal \in Sides
    /\ amount > max_position_size
    /\ SignalOrders = <<>> /\ SignalRows = <<>>
    /\ calls[Len(calls) - 1] = Call("check_position_size")

C11_Quiet ==
    signal = None =>
        /\ ~Called("check_consecutive_errors")
        /\ ~Called("check_reversal_count")
        /\ ~Called("check_position_size")
        /\ SignalOrders = <<>>
        /\ SignalRows = <<>>

C11_Step ==
    (pc = "signal" /\ signal' = None) =>
        /\ pc' = "assets"
        /\ UNCHANGED <<reversal_count, last_order_side, trade_history, orders, csv>>

\* C11: when the detector yields NONE, run_once goes straight to the balance:
\* execute_trade is not entered and no gate is evaluated, the signal step
\* leaves reversal_count, last_order_side and trade_history unchanged, and no
\* order is placed and no trade record written for a signal.
C11_NoSignalNoOrder == []C11_Quiet /\ [][C11_Step]_vars

C11_Witness ==
    /\ pc = "done"
    /\ signal = None
    /\ Called("get_signal")
    /\ Len(trade_history) = 1
    /\ SignalRows = <<>>

\* C24: a failure of the trade-log append never leaves run_once (the process
\* ends only on a failed status fetch or on the consecutive-errors stop), and
\* it does not change what is reported for the order: a successful signal
\* order is never reported as an ERROR row, a successful single close order
\* never as an ERROR_CLOSE row.
C24_LogFailureContained ==
    /\ pc = "exited" =>
          calls[Len(calls)][1] \in {"get_status", "check_consecutive_errors"}
    /\ \A i \in 1..Len(csv) :
          /\ (csv[i].status = "ERROR" /\ Len(SignalOrders) = 1) =>
                SignalOrders[1].outcome # "ok"
          /\ (csv[i].status = "ERROR_CLOSE"
                /\ Len(SelectSeq(orders, LAMBDA o : o.purpose = "AUTO_CLOSE")) = 1) =>
                SelectSeq(orders, LAMBDA o : o.purpose = "AUTO_CLOSE")[1].outcome # "ok"

\* the signal orders the exchange accepted
PlacedSignalOrders == SelectSeq(SignalOrders, LAMBDA o : o.outcome = "ok")

\* C26: reversal_count and last_order_side follow the orders placed through
\* execute_trade: last_order_side is the side of the most recent order
\* actually placed, unset if none was, and a signal whose order is abandoned
\* (position-size veto, price unavailable) or whose placement fails leaves
\* both as they were.
C26_ReversalsFollowOrders ==
    /\ last_order_side = IF PlacedSignalOrders = <<>> THEN None
                         ELSE PlacedSignalOrders[Len(PlacedSignalOrders)].side
    /\ PlacedSignalOrders = <<>> => reversal_count = 0

ReversalChecks ==
    Cardinality({i \in 1..Len(calls) : calls[i][1] = "check_reversal_count"})

\* the reversal gate stopped the signal: no later gate was asked
ReversalVeto ==
    Called("check_reversal_count") /\ ~Called("check_position_size")

C36_State ==
    /\ ReversalChecks <= 1
    /\ reversal_count = 0
    /\ ReversalChecks = 0 => last_order_side = None
    /\ ReversalVeto => max_reversal_count <= 0
    /\ (Called("check_reversal_count") /\ max_reversal_count <= 0) =>
          ReversalVeto

C36_Step ==
    ReversalChecks' > ReversalChecks =>
        /\ last_order_side = None
        /\ reversal_count = 0

\* C36: in a process that performs one run_once check_reversal_count is
\* called at most once and from fresh state (last_order_side unset), so
\* reversal_count is 0 throughout and at the end of every run, and the
\* reversal gate vetoes a signal exactly when max_reversal_count <= 0.
C36_SingleFreshCheck == []C36_State /\ [][C36_Step]_vars

\* a completed run whose signal the reversal gate vetoed, the limit being 0
C36_Witness ==
    /\ pc = "done"
    /\ ReversalVeto
    /\ max_reversal_count = 0
    /\ last_order_side \in Sides
    /\ reversal_count = 0
    /\ orders = <<>>

---------------------------------------------------------------------------
(* check_existing_positions under stop_loss and take_profit limits that    *)
(* let both triggers hold at once                                          *)

\* <<stop_loss, take_profit>> (10,000 JPY): the defaults, and zero limits
PositionLimits == {<<1, 2>>, <<0, 0>>}

InitPositions ==
    /\ RiskInit
    /\ \E l \in PositionLimits : stop_loss = l[1] /\ take_profit = l[2]
    /\ max_position_size = 10 /\ max_reversal_count = 5
    /\ max_consecutive_errors = 3 /\ amount = 1 /\ order_type = "MARKET"
    /\ consecutive_errors = 0
    /\ short_period = 1 /\ long_period = 2 /\ last_signal = None
    /\ pc = "start" /\ positions = <<>> /\ current_price = NoNumber
    /\ signal = None /\ exit_status = NoNumber
    /\ orders = <<>> /\ csv = <<>>
    /\ calls = <<>>
    /\ ret = [op |-> "__init__", args |-> <<>>, result |-> TRUE]

\* run_once up to the return of check_existing_positions
NextPositions ==
    \/ GetStatus
    \/ GetCurrentPositions
    \/ GetPositionsPrice
    \/ CheckPosition

SpecPositions == InitPositions /\ [][NextPositions]_vars

---------------------------------------------------------------------------
(* Claims about check_existing_positions and close_position *)

\* the position the loop is at
Position == Head(positions)

\* the calls the step adds
NewCalls == SubSeq(calls', Len(calls) + 1, Len(calls'))

StopCall(position) == <<"check_stop_loss", position.positionId>>

TakeCall(position) == <<"check_take_profit", position.positionId>>

CloseCall(position) == <<"close_position", position.positionId>>

Count(seq, x) == Cardinality({i \in 1..Len(seq) : seq[i] = x})

\* the two conditions at the loop's price, from the position's fields
StopHolds(position) ==
    (IF position.side = "BUY"
     THEN (position.price - current_price) * position.size
     ELSE (current_price - position.price) * position.size)
        * current_price * YenScale >= stop_loss

TakeHolds(position) ==
    (IF position.side = "BUY"
     THEN (current_price - position.price) * position.size
     ELSE (position.price - current_price) * position.size)
        * current_price * YenScale >= take_profit

CloseOrders == SelectSeq(orders, LAMBDA o : o.purpose = "AUTO_CLOSE")

CloseRows == SelectSeq(csv, LAMBDA r : r.signal = "AUTO_CLOSE")

C12_Step ==
    pc = "positions_loop" =>
        /\ NewCalls[1] = StopCall(Position)
        /\ StopHolds(Position) =>
              /\ NewCalls[2] = CloseCall(Position)
              /\ Count(NewCalls, TakeCall(Position)) = 0
        /\ ~StopHolds(Position) =>
              /\ NewCalls[2] = TakeCall(Position)
              /\ TakeHolds(Position) => NewCalls[3] = CloseCall(Position)
              /\ ~TakeHolds(Position) => Len(NewCalls) = 2
        /\ Count(NewCalls, StopCall(Position)) = 1
        /\ Count(NewCalls, TakeCall(Position)) <= 1
        /\ Count(NewCalls, CloseCall(Position)) <= 1
        /\ Len(orders') <= Len(orders) + 1
        /\ Len(orders') > Len(orders) => Count(NewCalls, CloseCall(Position)) = 1

C12_OncePerPosition ==
    /\ \A i \in 1..MaxPositions :
         /\ Count(calls, <<"check_stop_loss", ToString(i)>>) <= 1
         /\ Count(calls, <<"check_take_profit", ToString(i)>>) <= 1
         /\ Count(calls, <<"close_position", ToString(i)>>) <= 1
    /\ Len(CloseOrders) <=
         Cardinality({i \in 1..Len(calls) : calls[i][1] = "close_position"})

\* C12: for each position checked in a run, check_stop_loss is evaluated first
\* and check_take_profit only when stop-loss returned false; the first true
\* check calls close_position, so each position is closed at most once and at
\* most one close order is issued for it in the run.
C12_StopLossFirst == []C12_OncePerPosition /\ [][C12_Step]_vars

\* both conditions hold for position 1 and only stop-loss was evaluated
C12_Witness ==
    /\ stop_loss = 0 /\ take_profit = 0 /\ current_price = 2
    /\ Len(calls) >= 5
    /\ calls[4] = <<"check_stop_loss", "1">>
    /\ calls[5] = <<"close_position", "1">>
    /\ Len(CloseOrders) = 1

\* a trigger holds for the position the loop is at
Triggered ==
    /\ pc = "positions_loop"
    /\ StopHolds(Position) \/ TakeHolds(Position)

\* the step placed a close order, and the order's fate
OrderPlaced == Len(orders') = Len(orders) + 1

NewOrder == orders'[Len(orders')]

RowWritten == Len(csv') = Len(csv) + 1

NewRow == csv'[Len(csv')]

\* the position check goes on: nothing was raised out of it
CheckGoesOn ==
    /\ pc' \in {"positions_loop", "price"}
    /\ exit_status' = NoNumber

C13_StepAsStated ==
    Triggered =>
        /\ RowWritten
        /\ NewRow.signal = "AUTO_CLOSE"
        /\ (OrderPlaced /\ NewOrder.outcome = "ok") => NewRow.status = "CLOSED"
        /\ ~(OrderPlaced /\ NewOrder.outcome = "ok") => NewRow.status = "ERROR_CLOSE"
        /\ CheckGoesOn

\* C13 as stated: every position whose stop-loss or take-profit triggers gets
\* exactly one trade-log record in the same run, CLOSED when the close order
\* succeeded and ERROR_CLOSE when it failed, and the failure is not re-raised
\* out of the position check.
C13_ExactlyOneRecord == [][C13_StepAsStated]_vars

C13_StepAmended ==
    Triggered =>
        /\ CheckGoesOn
        /\ Len(csv') >= Len(csv)
        /\ IF ~OrderPlaced
           THEN orders' = orders /\ csv' = csv
           ELSE /\ RowWritten \/ csv' = csv
                /\ RowWritten =>
                      /\ NewRow.signal = "AUTO_CLOSE"
                      /\ NewRow.size = Position.size
                      /\ \/ /\ NewRow.status = "CLOSED"
                            /\ NewOrder.outcome = "ok"
                            /\ NewRow.order_id = Len(orders')
                            /\ NewRow.error_message = ""
                         \/ /\ NewRow.status = "ERROR_CLOSE"
                            /\ NewRow.error_message # ""
                /\ (RowWritten /\ NewOrder.outcome # "ok") =>
                      NewRow.status = "ERROR_CLOSE"
                /\ ~RowWritten => positions' = <<>>

\* C13 amended: a position whose stop-loss or take-profit triggers gets no
\* close order and no record when the price is unavailable at close time;
\* otherwise one close order and at most one record: CLOSED with the order id
\* only when the order succeeded, ERROR_CLOSE with an error message when the
\* order failed or the CLOSED append failed; when the ERROR_CLOSE append fails
\* too no record is written and the rest of the positions is left unchecked.
\* In every case the position check returns normally.
C13_AtMostOneRecord == [][C13_StepAmended]_vars

C13_Witness ==
    /\ pc = "price"
    /\ Len(CloseOrders) = 1 /\ CloseOrders[1].outcome # "ok"
    /\ Len(CloseRows) = 1 /\ CloseRows[1].status = "ERROR_CLOSE"

C14_Step ==
    (pc = "positions_loop" /\ Len(orders') > Len(orders)) =>
        /\ OrderPlaced
        /\ NewOrder.purpose = "AUTO_CLOSE"
        /\ NewOrder.execution_type = "MARKET"
        /\ NewOrder.price = NoNumber
        /\ Position.side = "BUY" => NewOrder.side = "SELL"
        /\ Position.side = "SELL" => NewOrder.side = "BUY"
        /\ NewOrder.size = Position.size

C14_AllMarket ==
    \A i \in 1..Len(CloseOrders) :
        /\ CloseOrders[i].execution_type = "MARKET"
        /\ CloseOrders[i].side \in Sides

\* C14: every close order issued on a stop-loss or take-profit trigger is a
\* MARKET order (no price) whose side is the opposite of the position's side
\* and whose size is the full size of that position.
C14_CloseOrderShape == []C14_AllMarket /\ [][C14_Step]_vars

\* position 1, a SELL of 0.001 BTC, was closed by a BUY of 0.001 BTC and
\* position 2, a BUY of 0.002 BTC, by a SELL of 0.002 BTC
C14_Witness ==
    /\ Count(calls, <<"close_position", "1">>) = 1
    /\ Count(calls, <<"close_position", "2">>) = 1
    /\ Len(CloseOrders) = 2
    /\ CloseOrders[1].side = "BUY" /\ CloseOrders[1].size = 1
    /\ CloseOrders[2].side = "SELL" /\ CloseOrders[2].size = 2

---------------------------------------------------------------------------
(* Claims about failures of the external calls of a run *)

FailedOrderPlaced == OrderPlaced /\ NewOrder.outcome # "ok"

\* the listing request failed: only a failed private request leaves the
\* counter non-zero
ListingFailed == pc = "check_positions" /\ consecutive_errors' # 0

C27_Once ==
    /\ Count(calls, Call("get_open_positions")) <= 1
    /\ Count(calls, Call("get_signal")) <= 1
    /\ Count(calls, Call("place_order")) = Len(orders)
    /\ Len(SignalOrders) <= 1

C27_StepAsStated ==
    /\ pc # "start" => pc' # "exited"
    /\ ListingFailed => positions' = <<>> /\ pc' = "price"
    /\ (pc = "positions_loop" /\ FailedOrderPlaced) =>
          /\ positions' = Tail(positions)
          /\ pc' = IF Tail(positions) = <<>> THEN "price" ELSE "positions_loop"
    /\ (pc = "execute_trade" /\ FailedOrderPlaced) =>
          /\ RowWritten
          /\ NewRow.status = "ERROR"
          /\ pc' = "assets"
    /\ pc = "assets" => pc' = "done"

\* C27 as stated: a failure of any external call after the status check is
\* handled inside the run and not retried: run_once does not raise, a failed
\* position listing is treated as no open positions, a failed close order
\* does not stop the remaining positions or the signal step, and a failed
\* signal order is recorded as a failed trade attempt while the run goes on
\* to completion.
C27_FailuresHandled == []C27_Once /\ [][C27_StepAsStated]_vars

C27_StepAmended ==
    /\ (pc # "start" /\ pc' = "exited") =>
          /\ pc = "execute_trade"
          /\ exit_status' = 1
          /\ \/ consecutive_errors >= max_consecutive_errors
             \/ OrderPlaced /\ ~RowWritten
    /\ ListingFailed => positions' = <<>> /\ pc' = "price"
    /\ (pc = "positions_loop" /\ FailedOrderPlaced) =>
          /\ pc' \in {"positions_loop", "price"}
          /\ IF RowWritten
             THEN NewRow.status = "ERROR_CLOSE" /\ positions' = Tail(positions)
             ELSE csv' = csv /\ positions' = <<>>
    /\ (pc = "execute_trade" /\ FailedOrderPlaced) =>
          IF RowWritten
          THEN NewRow.status = "ERROR" /\ pc' = "assets"
          ELSE csv' = csv /\ pc' = "exited" /\ exit_status' = 1
    /\ pc = "assets" => pc' = "done"

\* C27 amended: a failure of an external call after the status check is not
\* retried and is handled inside the run: a failed position listing is
\* treated as no open positions; a failed close order is recorded as
\* ERROR_CLOSE and the remaining positions and the signal step are still
\* evaluated; a failed signal order is recorded as ERROR and the run goes on
\* to completion.  The run is left, with exit status 1, only when the
\* consecutive-errors gate stops the process before a signal order or when
\* the record of a signal order cannot be appended to the trade log; when the
\* record of a failed close order cannot be appended, the remaining
\* positions are skipped and the signal step is still evaluated.
C27_FailuresHandledOrFatal == []C27_Once /\ [][C27_StepAmended]_vars

\* a failed close order, a second position closed after it, then a failed
\* signal order, and the run completed
C27_Witness ==
    /\ pc = "done"
    /\ Len(CloseOrders) = 2 /\ CloseOrders[1].outcome # "ok"
    /\ Len(CloseRows) = 2 /\ CloseRows[1].status = "ERROR_CLOSE"
    /\ Len(SignalOrders) = 1 /\ SignalOrders[1].outcome # "ok"
    /\ Len(SignalRows) = 1 /\ SignalRows[1].status = "ERROR"

C39_State ==
    (ret.op = "get_status" /\ ret.result # "OPEN") =>
        /\ pc \in {"done", "exited"}
        /\ ret.result = "MAINTENANCE" => pc = "done" /\ exit_status = 0
        /\ calls = <<Call("get_status")>>
        /\ positions = <<>> /\ signal = None /\ last_signal = None
        /\ orders = <<>> /\ csv = <<>>
        /\ RiskInit
        /\ consecutive_errors = 0

C39_Step ==
    /\ (pc = "start" /\ ret'.result # "OPEN") =>
          UNCHANGED <<limits, reversal_count, last_order_side, trade_history,
                      consecutive_errors, strategy, positions, current_price,
                      signal, orders, csv>>
    /\ pc \notin {"done", "exited"}

\* C39: when the exchange status fetched at the start of a run is not OPEN
\* run_once returns at once: no position is listed, no signal evaluated, no
\* order placed or closed, no trade record written, and the RiskManager's
\* state is as it was constructed.
C39_ClosedExchangeNoAction == []C39_State /\ [][C39_Step]_vars

\* a run ended by the status MAINTENANCE
C39_Witness ==
    /\ ret.op = "get_status" /\ ret.result = "MAINTENANCE"
    /\ pc = "done" /\ exit_status = 0
    /\ calls = <<Call("get_status")>>

\* the process left through sys.exit(1) of the consecutive-errors gate
FatalExit ==
    /\ pc = "exited"
    /\ calls # <<>>
    /\ calls[Len(calls)] = Call("check_consecutive_errors")

\* the last n orders of the run are close orders that failed
FailedCloseRun(n) ==
    /\ Len(orders) >= n
    /\ \A i \in (Len(orders) - n + 1)..Len(orders) :
          orders[i].purpose = "AUTO_CLOSE" /\ orders[i].outcome # "ok"

C37_State ==
    (max_consecutive_errors >= 2 /\ FatalExit) =>
        /\ FailedCloseRun(max_consecutive_errors)
        /\ exit_status = 1

C37_Step ==
    /\ ListingFailed =>
          consecutive_errors' = 1 /\ positions' = <<>> /\ pc' = "price"
    /\ Len(orders') > Len(orders) =>
          \/ pc = "positions_loop" /\ positions # <<>>
          \/ pc = "execute_trade"
    /\ pc \in {"start", "positions_price", "price", "signal"} =>
          consecutive_errors' = consecutive_errors

---------------------------------------------------------------------------
(* The RiskManager's reversal counter under arbitrary call sequences *)

InitReversal ==
    /\ RiskInit
    /\ max_reversal_count \in -1..MaxLimit
    /\ stop_loss = 1 /\ take_profit = 2 /\ max_position_size = 10
    /\ max_consecutive_errors = 3 /\ amount = 1 /\ order_type = "MARKET"
    /\ consecutive_errors = 0
    /\ short_period = 1 /\ long_period = 2 /\ last_signal = None
    /\ pc = "api" /\ positions = <<>> /\ current_price = NoNumber
    /\ signal = None /\ exit_status = NoNumber
    /\ orders = <<>> /\ csv = <<>>
    /\ calls = <<>>
    /\ ret = [op |-> "__init__", args |-> <<>>, result |-> TRUE]

CallCheckReversalCount ==
    \E side \in Sides :
        /\ Len(calls) < MaxCalls
        /\ check_reversal_count(side)
        /\ calls' = Append(calls, <<"check_reversal_count", side>>)
        /\ ret' = [op |-> "check_reversal_count", args |-> <<side>>,
                   result |-> reversal_count_ok(side)]
        /\ UNCHANGED <<limits, trade_history, consecutive_errors, strategy, botvars>>

CallResetReversalCount ==
    /\ Len(calls) < MaxCalls
    /\ reset_reversal_count
    /\ calls' = Append(calls, <<"reset_reversal_count", None>>)
    /\ ret' = [op |-> "reset_reversal_count", args |-> <<>>, result |-> TRUE]
    /\ UNCHANGED <<limits, trade_history, consecutive_errors, strategy, botvars>>

NextReversal == CallCheckReversalCount \/ CallResetReversalCount

SpecReversal == InitReversal /\ [][NextReversal]_vars

---------------------------------------------------------------------------
(* Claims about check_reversal_count *)

SeqC1 == <<"BUY", "BUY", "SELL", "BUY", "SELL", "BUY">>

TrajC1 == <<0, 0, 1, 2, 3, 4>>

SeqC2 == <<"BUY", "BUY", "SELL", "BUY", "SELL", "BUY", "SELL", "BUY">>

CallsAre(sides) ==
    /\ Len(calls) = Len(sides)
    /\ \A i \in 1..Len(sides) : calls[i] = <<"check_reversal_count", sides[i]>>

C1_Step ==
    \A side \in Sides :
        calls' = Append(calls, <<"check_reversal_count", side>>) =>
            /\ reversal_count' =
                 IF last_order_side \in Sides /\ last_order_side # side
                 THEN reversal_count + 1 ELSE 0
            /\ last_order_side' = side
            /\ (ret'.result = FALSE) <=> (reversal_count' >= max_reversal_count)

C1_Trajectory ==
    \A k \in 1..Len(SeqC1) :
        CallsAre(SubSeq(SeqC1, 1, k)) =>
            /\ reversal_count = TrajC1[k]
            /\ (k = Len(SeqC1) /\ max_reversal_count = 4) => ret.result = FALSE

C2_TestFinalCount ==
    (max_reversal_count = 5 /\ CallsAre(SeqC2)) =>
        (ret.result = FALSE /\ reversal_count = 5)

LastCall == calls[Len(calls)]

C35_Step ==
    \A side \in Sides :
        (/\ calls # <<>>
         /\ LastCall = <<"check_reversal_count", side>>
         /\ calls' = Append(calls, <<"check_reversal_count", side>>)) =>
            /\ reversal_count' = 0
            /\ max_reversal_count >= 1 => ret'.result = TRUE

\* C35: a check_reversal_count(side) that immediately follows a call with
\* the same side sets reversal_count to 0 and, for max_reversal_count >= 1,
\* returns true, whatever the first call returned: the veto does not stick.
C35_VetoNotSticky == [][C35_Step]_vars

\* with the limit at 1: BUY, a vetoed SELL, and the same SELL let through
C35_Witness ==
    /\ CallsAre(<<"BUY", "SELL", "SELL">>)
    /\ max_reversal_count = 1
    /\ reversal_count = 0
    /\ last_order_side = "SELL"
    /\ ret.result = TRUE

---------------------------------------------------------------------------
(* check_stop_loss and check_take_profit applied to arbitrary positions *)

InitTriggers ==
    /\ RiskInit
    /\ stop_loss \in LimitChoices
    /\ take_profit \in LimitChoices
    /\ max_reversal_count = 5 /\ max_position_size = 10
    /\ max_consecutive_errors = 3 /\ amount = 1 /\ order_type = "MARKET"
    /\ consecutive_errors = 0
    /\ short_period = 1 /\ long_period = 2 /\ last_signal = None
    /\ pc = "api" /\ positions = <<>> /\ current_price = NoNumber
    /\ signal = None /\ exit_status = NoNumber
    /\ orders = <<>> /\ csv = <<>>
    /\ calls = <<>>
    /\ ret = [op |-> "__init__", args |-> <<>>, result |-> TRUE]

CallCheckStopLoss ==
    \E cur \in Prices, entry \in EntryPrices, side \in Sides, size \in Sizes :
        /\ ret' = [op |-> "check_stop_loss", args |-> <<cur, entry, side, size>>,
                   result |-> check_stop_loss(cur, entry, side, size)]
        /\ UNCHANGED <<limits, reversal_count, last_order_side, trade_history,
                       consecutive_errors, strategy, botvars, calls>>

CallCheckTakeProfit ==
    \E cur \in Prices, entry \in EntryPrices, side \in Sides, size \in Sizes :
        /\ ret' = [op |-> "check_take_profit", args |-> <<cur, entry, side, size>>,
                   result |-> check_take_profit(cur, entry, side, size)]
        /\ UNCHANGED <<limits, reversal_count, last_order_side, trade_history,
                       consecutive_errors, strategy, botvars, calls>>

NextTriggers == CallCheckStopLoss \/ CallCheckTakeProfit

SpecTriggers == InitTriggers /\ [][NextTriggers]_vars

---------------------------------------------------------------------------
(* Claims about check_stop_loss and check_take_profit *)

\* the arguments of the last call
ArgCur == ret.args[1]

ArgEntry == ret.args[2]

ArgSide == ret.args[3]

ArgSize == ret.args[4]

\* entry 5,000,000 JPY and size 0.01 BTC, as in the tests
TestPosition(side, cur) ==
    ret.args = <<cur, 500, side, 10>>

C4_TestStopLoss ==
    (ret.op = "check_stop_loss" /\ stop_loss = 1) =>
        /\ TestPosition("BUY", 490) => ret.result = TRUE
        /\ TestPosition("BUY", 495) => ret.result = FALSE
        /\ TestPosition("SELL", 510) => ret.result = TRUE
        /\ TestPosition("SELL", 505) => ret.result = FALSE

C6_TestTakeProfit ==
    (ret.op = "check_take_profit" /\ take_profit = 2) =>
        /\ TestPosition("BUY", 520) => ret.result = TRUE
        /\ TestPosition("BUY", 510) => ret.result = FALSE
        /\ TestPosition("SELL", 480) => ret.result = TRUE
        /\ TestPosition("SELL", 490) => ret.result = FALSE

\* the position of the last call is in profit
InProfit ==
    \/ ArgSide = "BUY" /\ ArgCur > ArgEntry
    \/ ArgSide = "SELL" /\ ArgCur < ArgEntry

\* C7 as stated: a position in profit never triggers stop-loss.
C7_ProfitNeverStops ==
    (ret.op = "check_stop_loss" /\ InProfit) => ret.result = FALSE

\* C7 amended: for a non-negative stop_loss limit (and a positive price and
\* size), a position in profit never triggers stop-loss.
C7_ProfitNeverStopsNonNegLimit ==
    (ret.op = "check_stop_loss" /\ InProfit /\ stop_loss >= 0
        /\ ArgCur > 0 /\ ArgSize > 0) => ret.result = FALSE

C7_Witness ==
    /\ ret.op = "check_stop_loss"
    /\ InProfit
    /\ stop_loss >= 0
    /\ ret.result = FALSE

\* what each trigger gives for the arguments of the last call
StopFires == check_stop_loss(ArgCur, ArgEntry, ArgSide, ArgSize)

TakeFires == check_take_profit(ArgCur, ArgEntry, ArgSide, ArgSize)

\* C38: for positive stop_loss and take_profit and a positive current price
\* check_stop_loss and check_take_profit are never both true of the same
\* (current_price, entry_price, side, size): at most one trigger applies to
\* a position, whichever is checked first.
C38_TriggersExclusive ==
    /\ ret.op = "check_stop_loss" => ret.result = StopFires
    /\ ret.op = "check_take_profit" => ret.result = TakeFires
    /\ (/\ ret.op \in {"check_stop_loss", "check_take_profit"}
        /\ stop_loss > 0 /\ take_profit > 0 /\ ArgCur > 0) =>
            ~(StopFires /\ TakeFires)

\* a BUY position bought at 5,000,000 JPY, the price at 4,900,000 JPY: the
\* stop-loss fires and the take-profit, asked about the same position, not
C38_Witness ==
    /\ ret.op = "check_take_profit"
    /\ TestPosition("BUY", 490)
    /\ stop_loss = 1 /\ take_profit = 2
    /\ StopFires
    /\ ret.result = FALSE

---------------------------------------------------------------------------
(* The GMOClient's error counter under arbitrary request sequences, and    *)
(* the RiskManager's reading of it                                         *)

InitClient ==
    /\ RiskInit
    /\ max_consecutive_errors \in {1, 2, 3}
    /\ stop_loss = 1 /\ take_profit = 2 /\ max_position_size = 10
    /\ max_reversal_count = 5 /\ amount = 1 /\ order_type = "MARKET"
    /\ consecutive_errors = 0
    /\ short_period = 1 /\ long_period = 2 /\ last_signal = None
    /\ pc = "api" /\ positions = <<>> /\ current_price = NoNumber
    /\ signal = None /\ exit_status = NoNumber
    /\ orders = <<>> /\ csv = <<>>
    /\ calls = <<>>
    /\ ret = [op |-> "__init__", args |-> <<>>, result |-> TRUE]

\* one private request (get_assets, get_open_positions, place_order, ...);
\* the result is whether it returned rather than raised
PrivateRequest ==
    \E outcome \in RequestOutcomes :
        /\ Len(calls) < MaxRequests
        /\ consecutive_errors' = private_request(outcome)
        /\ calls' = Append(calls, <<"private_request", outcome>>)
        /\ ret' = [op |-> "private_request", args |-> <<outcome>>,
                   result |-> outcome = "ok"]
        /\ UNCHANGED <<limits, reversal_count, last_order_side, trade_history,
                       strategy, botvars>>

\* one public request (get_status, get_ticker, get_klines, ...)
PublicRequest ==
    \E outcome \in RequestOutcomes :
        /\ Len(calls) < MaxRequests
        /\ consecutive_errors' = public_request(outcome)
        /\ calls' = Append(calls, <<"public_request", outcome>>)
        /\ ret' = [op |-> "public_request", args |-> <<outcome>>,
                   result |-> outcome = "ok"]
        /\ UNCHANGED <<limits, reversal_count, last_order_side, trade_history,
                       strategy, botvars>>

\* check_consecutive_errors with the counter reset once it is read
CallCheckConsecutiveErrors_resets ==
    /\ ret' = [op |-> "check_consecutive_errors", args |-> <<>>,
               result |-> check_consecutive_errors]
    /\ consecutive_errors' = 0
    /\ UNCHANGED <<limits, reversal_count, last_order_side, trade_history,
                   strategy, botvars, calls>>

CallCheckConsecutiveErrors ==
    /\ ret' = [op |-> "check_consecutive_errors", args |-> <<>>,
               result |-> check_consecutive_errors]
    /\ UNCHANGED <<limits, reversal_count, last_order_side, trade_history,
                   consecutive_errors, strategy, botvars, calls>>

NextClient == PrivateRequest \/ PublicRequest \/ CallCheckConsecutiveErrors

SpecClient == InitClient /\ [][NextClient]_vars

---------------------------------------------------------------------------
(* Claims about the error counter *)

Requests == {"private_request", "public_request"}

C15_Step ==
    \A op \in Requests, outcome \in RequestOutcomes :
        calls' = Append(calls, <<op, outcome>>) =>
            consecutive_errors' =
                IF outcome = "ok" THEN 0 ELSE consecutive_errors + 1

\* C15: every failed API request, public or private, increments
\* consecutive_errors by one, and every successful request resets it to 0.
C15_EveryRequestCounts == [][C15_Step]_vars

\* the number of failed requests at the end of the history
RECURSIVE TrailingFailures(_)
TrailingFailures(history) ==
    IF history = <<>> \/ history[Len(history)][2] = "ok"
    THEN 0
    ELSE 1 + TrailingFailures(SubSeq(history, 1, Len(history) - 1))

OnlyPrivate ==
    \A i \in 1..Len(calls) : calls[i][1] = "private_request"

\* C16: consecutive_errors equals the number of failed requests (network,
\* HTTP or API status # 0) since the last successful one; after k consecutive
\* failing private requests the counter is k.
C16_CounterIsFailureRun ==
    OnlyPrivate => consecutive_errors = TrailingFailures(calls)

\* C17: check_consecutive_errors returns false iff the client's counter, as
\* it is when the call is made, is >= max_consecutive_errors.
C17_ErrorGate ==
    ret.op = "check_consecutive_errors" =>
        /\ (ret.result = FALSE) <=> (consecutive_errors >= max_consecutive_errors)
        /\ consecutive_errors = max_consecutive_errors => ret.result = FALSE
        /\ consecutive_errors = max_consecutive_errors - 1 => ret.result = TRUE

\* the counter was raised to the limit by failed requests, then read
C17_Witness ==
    /\ ret.op = "check_consecutive_errors"
    /\ max_consecutive_errors = 3
    /\ consecutive_errors = 3
    /\ ret.result = FALSE

---------------------------------------------------------------------------
(* The four pure checks of the RiskManager, between requests that move the *)
(* client's counter                                                        *)

InitGuards ==
    /\ RiskInit
    /\ max_position_size \in {1, 10}
    /\ stop_loss = 1 /\ take_profit = 2
    /\ max_reversal_count = 5 /\ max_consecutive_errors = 3
    /\ amount = 1 /\ order_type = "MARKET"
    /\ consecutive_errors = 0
    /\ short_period = 1 /\ long_period = 2 /\ last_signal = None
    /\ pc = "api" /\ positions = <<>> /\ current_price = NoNumber
    /\ signal = None /\ exit_status = NoNumber
    /\ orders = <<>> /\ csv = <<>>
    /\ calls = <<>>
    /\ ret = [op |-> "__init__", args |-> <<>>, result |-> TRUE]

CallCheckPositionSize ==
    \E size \in RequestedSizes :
        /\ ret' = [op |-> "check_position_size", args |-> <<size>>,
                   result |-> check_position_size(size)]
        /\ UNCHANGED <<limits, reversal_count, last_order_side, trade_history,
                       consecutive_errors, strategy, botvars, calls>>

NextGuards ==
    \/ CallCheckPositionSize
    \/ CallCheckConsecutiveErrors
    \/ CallCheckStopLoss
    \/ CallCheckTakeProfit
    \/ PrivateRequest

SpecGuards == InitGuards /\ [][NextGuards]_vars

---------------------------------------------------------------------------
(* Claims about the pure checks *)

\* C18: check_position_size(size) returns false iff size > max_position_size;
\* a size equal to max_position_size is accepted.
C18_SizeGate ==
    ret.op = "check_position_size" =>
        /\ (ret.result = FALSE) <=> (ret.args[1] > max_position_size)
        /\ ret.args[1] = max_position_size => ret.result = TRUE

C18_Witness ==
    /\ ret.op = "check_position_size"
    /\ ret.args[1] = max_position_size
    /\ ret.result = TRUE

PureChecks == {"check_position_size", "check_consecutive_errors",
               "check_stop_loss", "check_take_profit"}

\* what each check returns, from its arguments and the state it reads
C19_SameInputsSameResult ==
    /\ ret.op = "check_position_size" =>
          ret.result = (ret.args[1] <= max_position_size)
    /\ ret.op = "check_consecutive_errors" =>
          ret.result = (consecutive_errors < max_consecutive_errors)
    /\ ret.op = "check_stop_loss" =>
          ret.result = check_stop_loss(ret.args[1], ret.args[2], ret.args[3], ret.args[4])
    /\ ret.op = "check_take_profit" =>
          ret.result = check_take_profit(ret.args[1], ret.args[2], ret.args[3], ret.args[4])

C19_Step ==
    ret'.op \in PureChecks =>
        /\ UNCHANGED <<reversal_count, last_order_side, trade_history,
                       stop_loss, take_profit, max_position_size,
                       max_reversal_count, max_consecutive_errors,
                       consecutive_errors>>
        /\ (ret.op = ret'.op /\ ret.args = ret'.args) => ret'.result = ret.result

\* C19: check_position_size, check_consecutive_errors, check_stop_loss and
\* check_take_profit are pure: a call returns the value its inputs and the
\* state it reads determine, the same on every repetition, and leaves
\* reversal_count, last_order_side, trade_history, the five risk limits and
\* the client's consecutive_errors unchanged.
C19_ChecksArePure == []C19_SameInputsSameResult /\ [][C19_Step]_vars

\* a check made after two failed requests left the counter at 2
C19_Witness ==
    /\ ret.op = "check_consecutive_errors"
    /\ consecutive_errors = 2
    /\ ret.result = TRUE

---------------------------------------------------------------------------
(* MovingAverageStrategy.get_signal applied to arbitrary candle series *)

\* <<short_period, long_period>> a configuration may give
Periods == {<<1, 2>>, <<1, 3>>, <<2, 3>>, <<2, 2>>, <<3, 2>>}

InitStrategy ==
    /\ RiskInit
    /\ \E p \in Periods : short_period = p[1] /\ long_period = p[2]
    /\ last_signal = None
    /\ stop_loss = 1 /\ take_profit = 2 /\ max_position_size = 10
    /\ max_reversal_count = 5 /\ max_consecutive_errors = 3
    /\ amount = 1 /\ order_type = "MARKET"
    /\ consecutive_errors = 0
    /\ pc = "api" /\ positions = <<>> /\ current_price = NoNumber
    /\ signal = None /\ exit_status = NoNumber
    /\ orders = <<>> /\ csv = <<>>
    /\ calls = <<>>
    /\ ret = [op |-> "__init__", args |-> <<>>, result |-> TRUE]

\* get_signal with last_signal overwritten by every result
CallGetSignal_overwrites ==
    \E closes \in CloseSeries :
        /\ ret' = [op |-> "get_signal", args |-> <<closes>>,
                   result |-> get_signal(closes)]
        /\ last_signal' = get_signal(closes)
        /\ UNCHANGED <<limits, reversal_count, last_order_side, trade_history,
                       consecutive_errors, short_period, long_period,
                       botvars, calls>>

CallGetSignal ==
    \E closes \in CloseSeries :
        /\ ret' = [op |-> "get_signal", args |-> <<closes>>,
                   result |-> get_signal(closes)]
        /\ last_signal' = IF get_signal(closes) # None
                          THEN get_signal(closes) ELSE last_signal
        /\ UNCHANGED <<limits, reversal_count, last_order_side, trade_history,
                       consecutive_errors, short_period, long_period,
                       botvars, calls>>

CallCalculateMovingAverages ==
    \E closes \in CloseSeries :
        /\ ret' = [op |-> "calculate_moving_averages", args |-> <<closes>>,
                   result |-> calculate_moving_averages(closes)]
        /\ UNCHANGED <<limits, reversal_count, last_order_side, trade_history,
                       consecutive_errors, strategy, botvars, calls>>

NextStrategy == CallGetSignal \/ CallCalculateMovingAverages

SpecStrategy == InitStrategy /\ [][NextStrategy]_vars

---------------------------------------------------------------------------
(* Claims about get_signal *)

\* the series of the last call and its four averages, as <<sum, count>>
ArgCloses == ret.args[1]

HasAverages == calculate_moving_averages(ArgCloses) # None

CurShort == calculate_moving_averages(ArgCloses)[1]

CurLong == calculate_moving_averages(ArgCloses)[2]

PrevShort == previous_moving_averages(ArgCloses)[1]

PrevLong == previous_moving_averages(ArgCloses)[2]

\* a < b and a = b for averages with positive counts
AvgLess(a, b) == a[1] * b[2] < b[1] * a[2]

AvgEqual(a, b) == a[1] * b[2] = b[1] * a[2]

GoldenCross ==
    (AvgLess(PrevShort, PrevLong) \/ AvgEqual(PrevShort, PrevLong))
        /\ AvgLess(CurLong, CurShort)

DeadCross ==
    (AvgLess(PrevLong, PrevShort) \/ AvgEqual(PrevShort, PrevLong))
        /\ AvgLess(CurShort, CurLong)

\* C20: the signal is BUY iff prev_short <= prev_long and cur_short >
\* cur_long, SELL iff prev_short >= prev_long and cur_short < cur_long, and
\* NONE otherwise; BUY and SELL are never both applicable, and with
\* prev_short = prev_long a current short average strictly above the long one
\* gives BUY and strictly below gives SELL.
C20_Crossover ==
    (ret.op = "get_signal" /\ HasAverages) =>
        /\ ret.result = "BUY" <=> GoldenCross
        /\ ret.result = "SELL" <=> DeadCross
        /\ ret.result = None <=> (~GoldenCross /\ ~DeadCross)
        /\ ~(GoldenCross /\ DeadCross)
        /\ AvgEqual(PrevShort, PrevLong) =>
              /\ AvgLess(CurLong, CurShort) => ret.result = "BUY"
              /\ AvgLess(CurShort, CurLong) => ret.result = "SELL"

\* closes 2, 2, 3 with periods 1 and 2: previous averages 2 and 2, current
\* averages 3 and 5/2
C20_Witness ==
    /\ ret.op = "get_signal"
    /\ short_period = 1 /\ long_period = 2
    /\ ArgCloses = <<2, 2, 3>>
    /\ AvgEqual(PrevShort, PrevLong)
    /\ ret.result = "BUY"

C21_Step ==
    /\ ret'.op = "get_signal" =>
          last_signal' = IF ret'.result \in Sides THEN ret'.result ELSE last_signal
    /\ ret'.op # "get_signal" => last_signal' = last_signal

C21_Latest ==
    /\ last_signal \in Sides \cup {None}
    /\ (ret.op = "get_signal" /\ ret.result \in Sides) => last_signal = ret.result
    /\ (ret.op = "get_signal" /\ last_signal = None) => ret.result = None

\* C21: a get_signal call that returns BUY or SELL sets last_signal to that
\* value, a call that returns NONE leaves it as it was and no other call
\* touches it; starting unset, last_signal is thus at every moment the most
\* recent non-NONE signal, or unset when there was none.
C21_LastSignal == []C21_Latest /\ [][C21_Step]_vars

\* a call returned NONE after an earlier one had returned BUY
C21_Witness ==
    /\ ret.op = "get_signal"
    /\ ret.result = None
    /\ last_signal = "BUY"

\* C22: for a series with fewer than long_period closes, the empty one
\* included, calculate_moving_averages returns (None, None) and get_signal
\* returns NONE; no average is taken from a shorter window.
C22_InsufficientData ==
    Len(ret.args) = 1 /\ ret.op \in {"get_signal", "calculate_moving_averages"}
        /\ Len(ret.args[1]) < long_period
        => ret.result = None

C22_Witness ==
    /\ ret.op = "calculate_moving_averages"
    /\ long_period = 3
    /\ Len(ret.args[1]) = 2
    /\ ret.result = None

\* the sum of the last n elements
RECURSIVE SumLast(_, _)
SumLast(seq, n) ==
    IF n = 0 THEN 0 ELSE seq[Len(seq) - n + 1] + SumLast(seq, n - 1)

\* C23: for every series with at least long_period closes and every pair of
\* periods, short_ma is the mean of exactly the last short_period closes and
\* long_ma the mean of exactly the last long_period closes.
C23_ExactWindows ==
    (ret.op = "calculate_moving_averages" /\ Len(ret.args[1]) >= long_period) =>
        /\ ret.result # None
        /\ ret.result[2][2] = long_period
        /\ ret.result[2][1] = SumLast(ret.args[1], long_period)
        /\ ret.result[1][2] = short_period
        /\ ret.result[1][1] = SumLast(ret.args[1], short_period)

\* the series of the last call without its final element
Front == SubSeq(ArgCloses, 1, Len(ArgCloses) - 1)

\* C32: with at least long_period + 1 closes the previous pair of get_signal
\* is the pair of means calculate_moving_averages gives for the series
\* without its final element, which for short_period <= long_period are the
\* means of the short_period and of the long_period closes that end one
\* candle earlier; with fewer closes the previous pair is the current pair.
C32_PreviousPair ==
    (ret.op = "get_signal" /\ HasAverages) =>
        IF Len(ArgCloses) >= long_period + 1
        THEN /\ previous_moving_averages(ArgCloses) =
                    calculate_moving_averages(Front)
             /\ PrevLong = <<SumLast(Front, long_period), long_period>>
             /\ short_period <= long_period =>
                    PrevShort = <<SumLast(Front, short_period), short_period>>
        ELSE /\ PrevShort = CurShort
             /\ PrevLong = CurLong

\* a golden cross found between the windows ending at the last two candles
C32_Witness ==
    /\ ret.op = "get_signal" /\ ret.result = "BUY"
    /\ short_period = 2 /\ long_period = 3
    /\ ArgCloses = <<3, 1, 1, 3>>
    /\ PrevShort = <<2, 2>> /\ PrevLong = <<5, 3>>
    /\ CurShort = <<4, 2>> /\ CurLong = <<5, 3>>

C33_Step ==
    (ret'.op = "get_signal" /\ Len(ret'.args[1]) = long_period) =>
        /\ ret'.result = None
        /\ last_signal' = last_signal

\* C33: for a series of exactly long_period closes get_signal returns no
\* signal whatever the closes are and leaves last_signal as it was.
C33_ShortHistoryNoSignal == [][C33_Step]_vars

\* rising closes that would cross with one more candle of history, after an
\* earlier SELL signal
C33_Witness ==
    /\ ret.op = "get_signal" /\ ret.result = None
    /\ short_period = 1 /\ long_period = 2
    /\ ArgCloses = <<1, 3>>
    /\ MeanLess(CurLong, CurShort)
    /\ last_signal = "SELL"

---------------------------------------------------------------------------
(* The RiskManager's trade history under record_trade and the operations   *)
(* that change the reversal state                                          *)

InitHistory ==
    /\ RiskInit
    /\ max_reversal_count = 5
    /\ stop_loss = 1 /\ take_profit = 2 /\ max_position_size = 10
    /\ max_consecutive_errors = 3 /\ amount = 1 /\ order_type = "MARKET"
    /\ consecutive_errors = 0
    /\ short_period = 1 /\ long_period = 2 /\ last_signal = None
    /\ pc = "api" /\ positions = <<>> /\ current_price = NoNumber
    /\ signal = None /\ exit_status = NoNumber
    /\ orders = <<>> /\ csv = <<>>
    /\ calls = <<>>
    /\ ret = [op |-> "__init__", args |-> <<>>, result |-> TRUE]

\* record_trade(side, size, price, order_id) with size 0.001 BTC, price
\* 30,000 JPY and the order ids 1, 2, ...; the result is that it returned
CallRecordTrade ==
    \E side \in Sides :
        /\ Len(trade_history) < MaxTrades
        /\ trade_history' = record_trade(side, 1, 3, Len(trade_history) + 1)
        /\ ret' = [op |-> "record_trade",
                   args |-> <<side, 1, 3, Len(trade_history) + 1>>,
                   result |-> TRUE]
        /\ UNCHANGED <<limits, reversal_count, last_order_side,
                       consecutive_errors, strategy, botvars, calls>>

NextHistory ==
    \/ CallRecordTrade
    \/ CallCheckReversalCount
    \/ CallResetReversalCount

SpecHistory == InitHistory /\ [][NextHistory]_vars

---------------------------------------------------------------------------
(* Claims about record_trade and trade_history *)

C25_Step ==
    /\ Len(trade_history') >= Len(trade_history)
    /\ SubSeq(trade_history', 1, Len(trade_history)) = trade_history
    /\ (ret'.op = "record_trade" /\ trade_history' # trade_history) =>
          /\ Len(trade_history') = Len(trade_history) + 1
          /\ trade_history'[Len(trade_history')] =
                [side |-> ret'.args[1], size |-> ret'.args[2],
                 price |-> ret'.args[3], order_id |-> ret'.args[4]]
          /\ ret'.result = TRUE
          /\ UNCHANGED <<reversal_count, last_order_side, limits,
                         consecutive_errors, strategy, botvars, calls>>
    /\ ret'.op # "record_trade" => trade_history' = trade_history

C25_Recorded ==
    ret.op = "record_trade" =>
        /\ trade_history # <<>>
        /\ trade_history[Len(trade_history)].side = ret.args[1]
        /\ trade_history[Len(trade_history)].size = ret.args[2]
        /\ trade_history[Len(trade_history)].price = ret.args[3]
        /\ trade_history[Len(trade_history)].order_id = ret.args[4]

\* C25: record_trade(side, size, price, order_id) appends exactly one entry
\* with those four values at the end of trade_history, always returns and
\* changes nothing else; no operation removes, reorders or alters an earlier
\* entry, so trade_history only grows at its end.
C25_AppendOnly == []C25_Recorded /\ [][C25_Step]_vars

\* two recorded trades with a counted reversal between them
C25_Witness ==
    /\ ret.op = "record_trade"
    /\ Len(trade_history) = 2
    /\ trade_history[1] = [side |-> "BUY", size |-> 1, price |-> 3, order_id |-> 1]
    /\ trade_history[2] = [side |-> "SELL", size |-> 1, price |-> 3, order_id |-> 2]
    /\ reversal_count = 1

C34_Step ==
    /\ calls' = Append(calls, <<"reset_reversal_count", None>>) =>
          /\ reversal_count' = 0
          /\ last_order_side' = last_order_side
          /\ trade_history' = trade_history
    /\ \A side \in Sides :
          (/\ calls # <<>>
           /\ LastCall = <<"reset_reversal_count", None>>
           /\ last_order_side \in Sides \ {side}
           /\ calls' = Append(calls, <<"check_reversal_count", side>>)) =>
              reversal_count' = 1

\* C34: reset_reversal_count sets reversal_count to 0 whatever it was and
\* leaves last_order_side and trade_history as they were, so that a
\* check_reversal_count that follows with the side opposite to
\* last_order_side gives reversal_count 1.
C34_ResetKeepsSide == [][C34_Step]_vars

\* two reversals counted, one trade recorded, a reset, then a reversal
\* counted as the first
C34_Witness ==
    /\ calls = << <<"check_reversal_count", "BUY">>,
                  <<"check_reversal_count", "SELL">>,
                  <<"check_reversal_count", "BUY">>,
                  <<"reset_reversal_count", None>>,
                  <<"check_reversal_count", "SELL">> >>
    /\ Len(trade_history) = 1
    /\ reversal_count = 1
    /\ last_order_side = "SELL"

---------------------------------------------------------------------------
(* MovingAverageStrategy._get_klines_data applied to arbitrary responses *)

\* the candles of a response: three open times (one malformed), and per
\* candle either all fields numeric or one of them malformed
KlineTimes == {"1", "2", "abc"}

KlineFields ==
    { <<"1", "1", "1", "1", "1">>, <<"3", "3", "3", "3", "3">>,
      <<"abc", "1", "1", "1", "1">>, <<"1", "abc", "1", "1", "1">>,
      <<"1", "1", "abc", "1", "1">>, <<"1", "1", "1", "abc", "1">>,
      <<"1", "1", "1", "1", "abc">> }

Klines ==
    { [openTime |-> t, open |-> f[1], high |-> f[2], low |-> f[3],
       close |-> f[4], volume |-> f[5]] : t \in KlineTimes, f \in KlineFields }

KlineLists == UNION { [1..n -> Klines] : n \in 0..MaxKlines }

\* what a get_klines request may give
KlineResponses ==
    { [outcome |-> "ok", data |-> d] : d \in KlineLists } \cup
    { [outcome |-> o, data |-> <<>>] : o \in RequestOutcomes \ {"ok"} }

NotFetched == [outcome |-> "not fetched", data |-> <<>>]

\* the target counts asked for
KlineCounts == {1, 2}

InitKlines ==
    /\ RiskInit
    /\ short_period = 1 /\ long_period = 2 /\ last_signal = None
    /\ stop_loss = 1 /\ take_profit = 2 /\ max_position_size = 10
    /\ max_reversal_count = 5 /\ max_consecutive_errors = 3
    /\ amount = 1 /\ order_type = "MARKET"
    /\ consecutive_errors = 0
    /\ pc = "signal" /\ positions = <<>> /\ current_price = NoNumber
    /\ signal = None /\ exit_status = NoNumber
    /\ orders = <<>> /\ csv = <<>>
    /\ calls = <<>>
    /\ ret = [op |-> "__init__", args |-> <<>>, result |-> TRUE]

\* one call of _get_klines_data, lines 52-97, with its get_klines requests
CallGetKlinesData ==
    /\ pc = "signal"
    /\ \E count \in KlineCounts, today \in KlineResponses :
         \E yesterday \in IF fetches_yesterday(today)
                          THEN KlineResponses ELSE {NotFetched} :
          \E df \in get_klines_data(count, today, yesterday) :
            /\ ret' = [op |-> "_get_klines_data",
                       args |-> <<count, today, yesterday>>, result |-> df]
            /\ calls' = IF fetches_yesterday(today)
                        THEN calls \o <<<<"get_klines", "today">>,
                                        <<"get_klines", "yesterday">>>>
                        ELSE Append(calls, <<"get_klines", "today">>)
            /\ consecutive_errors' = public_request(today.outcome)
    /\ pc' = "returned"
    /\ UNCHANGED <<limits, reversal_count, last_order_side, trade_history,
                   strategy, positions, current_price, signal, exit_status,
                   orders, csv>>

NextKlines == CallGetKlinesData

SpecKlines == InitKlines /\ [][NextKlines]_vars

---------------------------------------------------------------------------
(* Claims about _get_klines_data *)

KlinesReturned == ret.op = "_get_klines_data"

TargetCount == ret.args[1]

Series == ret.result

\* the candles of the response the series was built from
Fetched ==
    IF ret.args[2].outcome = "ok" /\ ret.args[2].data # <<>>
    THEN ret.args[2].data
    ELSE IF ret.args[3].outcome = "ok" THEN ret.args[3].data ELSE <<>>

\* the fetched candles whose open_time, open, high, low and close coerce to
\* numbers, as numbers, in the order fetched
Usable ==
    to_numeric_columns(
        SelectSeq(Fetched, LAMBDA r : /\ r.openTime \in NumericStrings
                                      /\ r.open \in NumericStrings
                                      /\ r.high \in NumericStrings
                                      /\ r.low \in NumericStrings
                                      /\ r.close \in NumericStrings))

Rows(df) == {df[i] : i \in 1..Len(df)}

Ascending(df) ==
    \A i, j \in 1..Len(df) : i < j => df[i].openTime <= df[j].openTime

\* C28: in every series the builder returns open_time is strictly
\* increasing; of the records with the same open_time one remains, the one
\* fetched last.
C28_StrictlyIncreasing ==
    KlinesReturned =>
        /\ \A i, j \in 1..Len(Series) :
              i < j => Series[i].openTime < Series[j].openTime
        /\ \A i \in 1..Len(Series), k \in 1..Len(Usable) :
              Usable[k].openTime = Series[i].openTime =>
                  \E l \in k..Len(Usable) :
                      /\ Usable[l] = Series[i]
                      /\ \A m \in (l+1)..Len(Usable) :
                            Usable[m].openTime # Series[i].openTime

\* C29 as stated: the series contains exactly the fetched records whose
\* open_time, open, high, low and close coerce to numbers, each as often as
\* it was fetched, ascending by open_time; the other records are dropped
\* without an error and without the loss of the rest.
C29_ExactlyUsable ==
    KlinesReturned =>
        /\ \A r \in Rows(Series) \cup Rows(Usable) :
              Count(Series, r) = Count(Usable, r)
        /\ Ascending(Series)

\* C29 amended: the series contains only fetched records whose open_time,
\* open, high, low and close coerce to numbers, none more often than it was
\* fetched, ascending by open_time, and it contains exactly these records
\* when there are no more of them than the target count; the other records
\* are dropped without an error and without the loss of the rest.
C29_UsableUpToCount ==
    KlinesReturned =>
        /\ \A r \in Rows(Series) : Count(Series, r) <= Count(Usable, r)
        /\ Len(Usable) <= TargetCount =>
              \A r \in Rows(Usable) : Count(Series, r) = Count(Usable, r)
        /\ Ascending(Series)

\* three candles fetched, one with a malformed low dropped, the two others
\* returned in the order of their open times
C29_Witness ==
    /\ KlinesReturned
    /\ TargetCount = 2
    /\ Len(Fetched) = 3 /\ Fetched[2].low = "abc"
    /\ Fetched[1].openTime = "2" /\ Fetched[3].openTime = "1"
    /\ Len(Series) = 2
    /\ Series[1].openTime = 1 /\ Series[2].openTime = 2

Min(a, b) == IF a < b THEN a ELSE b

\* C30: the series for a target count N has min(N, number of usable
\* records) entries, the most recent by open_time: every usable record left
\* out is no later than every record returned; with fewer than N usable
\* records all of them are returned, without padding and without an error.
C30_MostRecent ==
    KlinesReturned =>
        /\ Len(Series) = Min(TargetCount, Len(Usable))
        /\ \A r \in Rows(Usable) :
              /\ Count(Series, r) <= Count(Usable, r)
              /\ Count(Series, r) < Count(Usable, r) =>
                    \A i \in 1..Len(Series) : r.openTime <= Series[i].openTime
        /\ \A r \in Rows(Series) : r \in Rows(Usable)

\* three usable candles for a target of two: the earliest is left out
C30_Witness ==
    /\ KlinesReturned
    /\ TargetCount = 2
    /\ Len(Usable) = 3
    /\ Usable[1].openTime = 2 /\ Usable[2].openTime = 1
    /\ Usable[3].openTime = 2
    /\ Len(Series) = 2
    /\ Series[1].openTime = 2 /\ Series[2].openTime = 2

\* the usable candles of a response, none when the request failed
UsableOf(response) ==
    IF response.outcome # "ok" THEN <<>>
    ELSE dropna(to_numeric_columns(response.data))

FetchedToday == Count(calls, <<"get_klines", "today">>)

FetchedYesterday == Count(calls, <<"get_klines", "yesterday">>)

\* C31: when the fetch for today's date yields no usable candle the builder
\* asks exactly once for the prior day, and otherwise not at all, so at most
\* two fetches are made; when that yields no usable candle either the
\* result is the empty series.
C31_FallbackOnce ==
    KlinesReturned =>
        /\ FetchedToday = 1
        /\ FetchedYesterday = IF UsableOf(ret.args[2]) = <<>> THEN 1 ELSE 0
        /\ Len(calls) <= 2
        /\ (UsableOf(ret.args[2]) = <<>> /\ UsableOf(ret.args[3]) = <<>>) =>
              Series = <<>>

===========================================================================
